---------------------------- MODULE Spec2Model ----------------------------
(***************************************************************************)
(* Pricing / bulk price-update core of the product service.                *)
(*                                                                         *)
(* The repository holds two divergent ProductService classes:              *)
(*   "part_003" - src/unnamed/part_003 (the long form, with hierarchy      *)
(*                pricing, price guards and conflict reporting)            *)
(*   "api"      - src/src/services/api/productService.js (the module the   *)
(*                UI imports)                                              *)
(* A service instance is one or the other; the variable svc says which,    *)
(* and is fixed by Init.  Operators modelled from productService.js carry  *)
(* the suffix _api; unsuffixed ones are modelled from part_003.            *)
(*                                                                         *)
(* Numbers.  Every amount is an integer count of hundredths: a price of    *)
(* 1000.00 is 100000, a percentage of 10 is 1000.  JavaScript doubles are  *)
(* taken as exact decimals.  A numeric field the code reads through        *)
(* `x || 0`, `parseFloat(x) || 0`, `!x` or `x > 0` is 0 when absent: the   *)
(* code cannot tell an absent one from 0.  A string field is "" when       *)
(* absent.  Timestamps (updatedAt, hierarchyLastUpdated) are left out.     *)
(***************************************************************************)
EXTENDS Integers, Sequences, FiniteSets, TLC

VARIABLES
  svc,        \* which ProductService class this instance is
  products,   \* this.products: the in-memory collection, in array order
  hier,       \* the bulkUpdatePricingHierarchy call in flight (part_003)
  last,       \* the call that returned last: operation, request, report
  calls,      \* number of service calls started
  call,       \* the last call of a pure method: name, argument, result
  nextId,     \* this.nextId of productService.js (part_003 has none: 0)
  pend,       \* the addSeasonalDiscount call in flight (part_003)
  everIds     \* history: every id a stored product has had

vars == <<svc, products, hier, last, calls, call, nextId, pend, everIds>>

-----------------------------------------------------------------------------
(* Bounds of the model *)

MaxCalls == 2     \* service calls per behaviour
Today == 10       \* the day `new Date()` would give, as a day number

-----------------------------------------------------------------------------
(* Arithmetic *)

Max(a, b) == IF a >= b THEN a ELSE b
Min(a, b) == IF a <= b THEN a ELSE b
Abs(a) == IF a >= 0 THEN a ELSE 0 - a

\* Math.round(x * 100) / 100 for the amount x = num / den hundredths
\* (den > 0): the nearest hundredth, a half rounding up.  The fractions
\* of this model have the denominator 1 or 10000 (a percentage).
roundToDecimals(num, den) ==
  (num \div den) + (IF 2 * (num % den) >= den THEN 1 ELSE 0)

\* Number.prototype.toFixed(2) of num / den hundredths: the nearest
\* hundredth, a half rounding away from zero.
toFixed2(num, den) ==
  LET n == IF den < 0 THEN 0 - num ELSE num
      d == Abs(den)
  IN  IF n >= 0 THEN roundToDecimals(n, d) ELSE 0 - roundToDecimals(0 - n, d)

\* The elements of sequence s that satisfy Test, in order (Array.filter).
SelectIdx(s, idxs) == [k \in 1..Cardinality(idxs) |->
  s[CHOOSE i \in idxs : Cardinality({j \in idxs : j < i}) = k - 1]]

\* Array.findIndex(p => p.id === id): the first index, 0 for -1.
findIndex(ps, id) ==
  IF \E i \in 1..Len(ps) : ps[i].id = id
  THEN CHOOSE i \in 1..Len(ps) : ps[i].id = id /\ \A j \in 1..(i - 1) : ps[j].id # id
  ELSE 0


-----------------------------------------------------------------------------
(* Pure methods: price resolution and validation *)

\* A value given for a price that is not a number: the number NaN, and a
\* string of letters ('abc').  A number n is <<n>>.
NaN == <<0, 0>>
NonNumeric == <<0, 0, 0>>

IsNumber(x) == Len(x) = 1

\* JavaScript's truthiness of a given value: 0, NaN and undefined are
\* falsy, a non-empty string is truthy.
Truthy(x) == IF IsNumber(x) THEN x[1] # 0 ELSE x = NonNumeric

\* A stored field that holds NaN or letters, and its reading through
\* `parseFloat(x) || 0`.
NotANumber == 0 - 999999
Stored(x) == IF IsNumber(x) THEN x[1] ELSE NotANumber
ParsedOrZero(n) == IF n = NotANumber THEN 0 ELSE n

\* calculateHierarchyPrice of part_003: base price > variation override >
\* seasonal discount, rounded to 2 decimals.  The date range and the active
\* flag of the discount are not read.
calculateHierarchyPrice(productData) ==
  LET base == IF productData.basePrice # 0 THEN productData.basePrice
              ELSE productData.price
      effectivePrice == IF productData.variationPrice > 0
                        THEN productData.variationPrice ELSE base
  IN  IF productData.seasonalDiscount > 0
      THEN IF productData.seasonalDiscountType = "Percentage"
           THEN roundToDecimals(effectivePrice * (10000 - productData.seasonalDiscount), 10000)
           ELSE roundToDecimals(Max(0, effectivePrice - productData.seasonalDiscount), 1)
      ELSE roundToDecimals(effectivePrice, 1)

\* calculateMarginPercentage of productService.js, for a base price of
\* num / den hundredths: 0 without a cost, else the margin in hundredths of
\* a percent.
calculateMarginPercentage_api(num, den, costPrice) ==
  IF costPrice <= 0 THEN 0
  ELSE IF den = 10000 THEN roundToDecimals(num - costPrice * 10000, costPrice)
  ELSE roundToDecimals((num - costPrice * den) * 10000, den * costPrice)

\* calculateHierarchyPrice of productService.js: a breakdown of base price,
\* cost and margin; no variation override and no seasonal discount.
calculateHierarchyPrice_api(productData) ==
  [basePrice |-> productData.price,
   costPrice |-> productData.purchasePrice,
   margin |-> calculateMarginPercentage_api(productData.price, 1, productData.purchasePrice)]

\* calculateProfitMetrics of productService.js.
calculateProfitMetrics_api(productData) ==
  LET price == ParsedOrZero(productData.price)
      purchasePrice == ParsedOrZero(productData.purchasePrice)
      discountValue == productData.discountValue
      pct == discountValue > 0 /\ productData.discountType = "Percentage"
      num0 == IF discountValue > 0
              THEN IF pct THEN price * (10000 - discountValue) ELSE price - discountValue
              ELSE price
      den == IF pct THEN 10000 ELSE 1
      num == Max(0, num0)
  IN  [minSellingPrice |-> IF purchasePrice > 0 THEN roundToDecimals(purchasePrice * 11, 10) ELSE 0,
       profitMargin |-> calculateMarginPercentage_api(num, den, purchasePrice)]

\* calculateProfitMetrics of part_003: the margin is 0 without a cost or
\* with a final price of 0.
calculateProfitMetrics(productData) ==
  LET price == productData.price
      purchasePrice == productData.purchasePrice
      discountValue == productData.discountValue
      pct == discountValue > 0 /\ productData.discountType = "Percentage"
      num0 == IF discountValue > 0
              THEN IF pct THEN price * (10000 - discountValue) ELSE price - discountValue
              ELSE price
      den == IF pct THEN 10000 ELSE 1
      num == Max(0, num0)
  IN  [minSellingPrice |-> IF purchasePrice > 0 THEN roundToDecimals(purchasePrice * 11, 10) ELSE 0,
       profitMargin |-> IF purchasePrice > 0 /\ num > 0
                        THEN calculateMarginPercentage_api(num, den, purchasePrice) ELSE 0,
       finalPrice |-> roundToDecimals(num, den)]

\* validatePriceUpdate of part_003.  priceData.price and .purchasePrice are
\* <<>> when undefined and <<n>> when given; parseFloat of NaN and of
\* letters is NaN.
validatePriceUpdate(priceData) ==
  IF priceData.price # <<>> /\ (~IsNumber(priceData.price) \/ priceData.price[1] <= 0)
    THEN [isValid |-> FALSE, error |-> "Base price must be greater than 0"]
  ELSE IF priceData.purchasePrice # <<>>
          /\ (~IsNumber(priceData.purchasePrice) \/ priceData.purchasePrice[1] < 0)
    THEN [isValid |-> FALSE, error |-> "Cost price cannot be negative"]
  ELSE IF /\ priceData.price # <<>> /\ priceData.purchasePrice # <<>>
          /\ priceData.price[1] <= priceData.purchasePrice[1]
    THEN [isValid |-> FALSE, error |-> "Base price must be greater than cost price"]
  ELSE [isValid |-> TRUE, error |-> ""]

\* a <= b of JavaScript for two given values: numbers compare as numbers,
\* two strings as strings, and a comparison with NaN (or with letters
\* converted to a number) is false.
LessOrEqual(a, b) ==
  IF IsNumber(a) /\ IsNumber(b) THEN a[1] <= b[1]
  ELSE a = NonNumeric /\ b = NonNumeric

\* validatePriceUpdate of productService.js: a field that is undefined, 0
\* or NaN is falsy and skips its rule.
validatePriceUpdate_api(priceData) ==
  LET price == priceData.price
      purchasePrice == priceData.purchasePrice
  IN  IF Truthy(price) /\ LessOrEqual(price, <<0>>)
        THEN [isValid |-> FALSE, error |-> "Price must be greater than 0"]
      ELSE IF Truthy(purchasePrice) /\ IsNumber(purchasePrice) /\ purchasePrice[1] < 0
        THEN [isValid |-> FALSE, error |-> "Purchase price cannot be negative"]
      ELSE IF Truthy(price) /\ Truthy(purchasePrice) /\ LessOrEqual(price, purchasePrice)
        THEN [isValid |-> FALSE, error |-> "Selling price must be greater than purchase price"]
      ELSE [isValid |-> TRUE, error |-> ""]

\* The conflicts validatePricingHierarchy of part_003 collects for
\* productData; isValid is conflicts.length === 0.  (Its warnings never
\* enter isValid.)
hierarchyConflicts(productData) ==
  LET basePrice == IF productData.basePrice # 0 THEN productData.basePrice
                   ELSE productData.price
      variationPrice == productData.variationPrice
      seasonalDiscount == productData.seasonalDiscount
      seasonalDiscountType == IF productData.seasonalDiscountType = ""
                              THEN "Fixed Amount" ELSE productData.seasonalDiscountType
      applicablePrice == IF variationPrice > 0 THEN variationPrice ELSE basePrice
      pct == seasonalDiscountType = "Percentage"
      fnum == IF pct THEN applicablePrice * (10000 - seasonalDiscount)
              ELSE Max(0, applicablePrice - seasonalDiscount)
      fden == IF pct THEN 10000 ELSE 1
      purchasePrice == productData.purchasePrice
  IN  (IF basePrice <= 0 THEN {"invalid_base_price"} ELSE {})
      \cup
      (IF seasonalDiscount > 0
       THEN (IF pct /\ seasonalDiscount > 7000 THEN {"excessive_seasonal_discount"} ELSE {})
            \cup (IF seasonalDiscountType = "Fixed Amount" /\ seasonalDiscount >= applicablePrice
                  THEN {"invalid_seasonal_discount"} ELSE {})
            \cup (IF (IF pct THEN fnum < basePrice * 1000 ELSE 10 * fnum < basePrice)
                  THEN {"price_too_low"} ELSE {})
            \cup (IF purchasePrice > 0
                     /\ (IF pct THEN fnum < purchasePrice * 10500
                         ELSE 100 * fnum < purchasePrice * 105)
                  THEN {"low_profit_margin"} ELSE {})
       ELSE {})

\* A validator whose conflicts do not decide isValid.
validatePricingHierarchy_conflictsAdvisory(productData) ==
  [isValid |-> TRUE, conflicts |-> hierarchyConflicts(productData)]

validatePricingHierarchy(productData) ==
  [isValid |-> hierarchyConflicts(productData) = {},
   conflicts |-> hierarchyConflicts(productData)]


\* validateProfitRules of part_003: the first rule that fails gives the
\* error.  discountType is 'Fixed Amount' when not given.
validateProfitRules(productData) ==
  LET purchasePrice == productData.purchasePrice
      price == productData.price
      discountValue == productData.discountValue
      pct == productData.discountType = "Percentage"
      fixed == productData.discountType \in {"", "Fixed Amount"}
      \* finalPrice as the fraction fnum / fden
      fnum == IF pct THEN price * (10000 - discountValue) ELSE price - discountValue
      fden == IF pct THEN 10000 ELSE 1
      Reject(msg) == [isValid |-> FALSE, error |-> msg]
  IN  IF price < 100 THEN Reject("Price cannot be less than Rs. 1")
      ELSE IF price > 10000000 THEN Reject("Price cannot exceed Rs. 100,000")
      ELSE IF purchasePrice > 0 /\ price <= purchasePrice
        THEN Reject("Selling price must be greater than purchase price")
      ELSE IF discountValue > 0
      THEN IF pct /\ discountValue > 9000
             THEN Reject("Percentage discount cannot exceed 90%")
           ELSE IF fixed /\ discountValue >= price
             THEN Reject("Fixed discount cannot be equal to or greater than the product price")
           ELSE IF purchasePrice > 0 /\ fnum <= purchasePrice * fden
             THEN Reject("Discounted price cannot be equal to or less than purchase price")
           ELSE IF purchasePrice > 0 /\ fnum * (IF pct THEN 1 ELSE 100) <
                                        purchasePrice * (IF pct THEN 10500 ELSE 105)
             THEN Reject("Profit margin after discount should be at least 5% for sustainable business")
           ELSE [isValid |-> TRUE, error |-> ""]
      ELSE IF purchasePrice > 0 /\ price * 100 < purchasePrice * 105
        THEN Reject("Profit margin should be at least 5% for sustainable business")
      ELSE [isValid |-> TRUE, error |-> ""]

\* validateProfitRules of productService.js: the price against the cost,
\* and nothing about the discount.
validateProfitRules_api(productData) ==
  IF productData.purchasePrice > 0 /\ productData.price <= productData.purchasePrice
  THEN [isValid |-> FALSE, error |-> "Selling price must be greater than purchase price"]
  ELSE [isValid |-> TRUE, error |-> ""]

\* The warnings validatePricingHierarchy of part_003 collects: a variation
\* price under 80 % of the base price, and the id of every other product of
\* the category whose seasonal-discount dates overlap productData's.
\* excludeId is 0 for null.
hierarchyWarnings(productData, category, allProducts, excludeId) ==
  LET basePrice == IF productData.basePrice # 0 THEN productData.basePrice
                   ELSE productData.price
      variationPrice == productData.variationPrice
      dated(p) == p.seasonalDiscount > 0
                  /\ p.seasonalDiscountStartDate # 0 /\ p.seasonalDiscountEndDate # 0
  IN  (IF variationPrice > 0 /\ variationPrice * 10 < basePrice * 8
       THEN {"variation_price_low"} ELSE {})
      \cup
      (IF dated(productData)
       THEN {<<"overlap", allProducts[i].id>> : i \in
               {j \in 1..Len(allProducts) :
                  /\ allProducts[j].category = category
                  /\ allProducts[j].id # excludeId
                  /\ dated(allProducts[j])
                  /\ productData.seasonalDiscountStartDate <= allProducts[j].seasonalDiscountEndDate
                  /\ productData.seasonalDiscountEndDate >= allProducts[j].seasonalDiscountStartDate}}
       ELSE {})

\* validatePricingHierarchy of productService.js: a conflict for every
\* other product of the category with the same price; no warnings.
validatePricingHierarchy_api(productData, category, allProducts, excludeId) ==
  LET conflicts == {<<"duplicate_price", allProducts[i].id>> : i \in
                      {j \in 1..Len(allProducts) :
                         /\ allProducts[j].category = category
                         /\ allProducts[j].id # excludeId
                         /\ Abs(allProducts[j].price - productData.price) < 1}}
  IN  [isValid |-> conflicts = {}, conflicts |-> conflicts, warnings |-> {}]


-----------------------------------------------------------------------------
(* bulkUpdatePrices of part_003 *)

\* The report of a call that threw.
Thrown(msg) ==
  [ok |-> FALSE, error |-> msg, updatedCount |-> 0, totalFiltered |-> <<>>,
   conflicts |-> <<>>, updateResults |-> <<>>]

validateBulkPriceUpdate(updateData) ==
  IF updateData.strategy = ""
    THEN [isValid |-> FALSE, error |-> "Update strategy is required"]
  ELSE IF updateData.strategy = "range" /\ (updateData.minPrice = 0 \/ updateData.maxPrice = 0)
    THEN [isValid |-> FALSE, error |-> "Both minimum and maximum prices are required for range strategy"]
  ELSE IF updateData.strategy = "range" /\ updateData.minPrice >= updateData.maxPrice
    THEN [isValid |-> FALSE, error |-> "Minimum price must be less than maximum price"]
  ELSE IF updateData.strategy # "range" /\ updateData.value = 0
    THEN [isValid |-> FALSE, error |-> "Update value is required"]
  ELSE IF updateData.applyTo = ""
    THEN [isValid |-> FALSE, error |-> "Apply To selection is required"]
  ELSE IF updateData.applyTo = "selected_rows" /\ updateData.selectedRows = {}
    THEN [isValid |-> FALSE, error |-> "No rows selected for update"]
  ELSE IF updateData.priceGuards.enabled
          /\ updateData.priceGuards.minPrice >= updateData.priceGuards.maxPrice
    THEN [isValid |-> FALSE, error |-> "Price guard minimum must be less than maximum"]
  ELSE IF updateData.priceGuards.enabled /\ updateData.priceGuards.minMargin < 0
    THEN [isValid |-> FALSE, error |-> "Minimum margin cannot be negative"]
  ELSE [isValid |-> TRUE, error |-> ""]

\* The indexes of the products a bulkUpdatePrices request selects.
filteredIdx(ps, updateData) ==
  IF updateData.applyTo = "selected_rows" /\ updateData.selectedRows # {}
  THEN {i \in 1..Len(ps) : ps[i].id \in updateData.selectedRows}
  ELSE {i \in 1..Len(ps) :
          /\ updateData.category # "all" => ps[i].category = updateData.category
          /\ updateData.applyToLowStock => ps[i].stock <= updateData.stockThreshold}

\* The strategy switch with a range case that pushes a price up to
\* minPrice and never down to maxPrice.
strategyPrice_noUpperBound(originalPrice, updateData) ==
  CASE updateData.strategy = "percentage" ->
         [num |-> originalPrice * (10000 + updateData.value), den |-> 10000]
    [] updateData.strategy = "fixed" ->
         [num |-> originalPrice + updateData.value, den |-> 1]
    [] updateData.strategy = "range" ->
         [num |-> Max(originalPrice, updateData.minPrice), den |-> 1]
    [] OTHER -> [num |-> originalPrice, den |-> 1]

\* The strategy switch: the candidate price, as the fraction num / den.
strategyPrice(originalPrice, updateData) ==
  CASE updateData.strategy = "percentage" ->
         [num |-> originalPrice * (10000 + updateData.value), den |-> 10000]
    [] updateData.strategy = "fixed" ->
         [num |-> originalPrice + updateData.value, den |-> 1]
    [] updateData.strategy = "range" ->
         [num |-> Min(Max(originalPrice, updateData.minPrice),
                      IF updateData.maxPrice # 0 THEN updateData.maxPrice ELSE originalPrice),
          den |-> 1]
    [] OTHER -> [num |-> originalPrice, den |-> 1]

\* The price guards' clamp into [minPrice, maxPrice].
guardClamp(c, g) ==
  LET lo == IF c.num < g.minPrice * c.den THEN [num |-> g.minPrice, den |-> 1] ELSE c
  IN  IF lo.num > g.maxPrice * lo.den THEN [num |-> g.maxPrice, den |-> 1] ELSE lo

\* Margin enforcement: whether the guarded candidate c of product is below
\* cost * (1 + minMargin / 100).  Only read when applyTo is base_price.
violatesMargin(c, product, updateData) ==
  /\ updateData.priceGuards.enabled
  /\ updateData.priceGuards.enforceMargin
  /\ updateData.applyTo = "base_price"
  /\ product.purchasePrice > 0
  /\ LET scaled == product.purchasePrice * (10000 + updateData.priceGuards.minMargin)
     IN  IF c.den = 10000 THEN c.num < scaled ELSE c.num * 10000 < scaled

\* The binary64 values of two amounts one cent apart.  n hundredths is
\* stored as the double nearest to n / 100; binade(n) is its exponent plus
\* 7 (0.01 has exponent -7), and residue(n) the rounding error of the
\* double, in hundredths of a unit in its last place (from -50 to 50).
RECURSIVE binadeFrom(_, _)
binadeFrom(n, s) ==
  IF 100 * 2^(s + 1) <= n * 128 THEN binadeFrom(n, s + 1) ELSE s

binade(n) == binadeFrom(n, 0)

RECURSIVE pow2mod(_, _)
pow2mod(k, m) == IF k = 0 THEN 1 ELSE (2 * pow2mod(k - 1, m)) % m

residue(n) ==
  LET r == ((n % 200) * pow2mod(59 - binade(n), 200)) % 200
  IN  IF r % 100 = 0 THEN 0
      ELSE IF r % 100 < 50 THEN 0 - (r % 100)
      ELSE IF r % 100 > 50 THEN 100 - (r % 100)
      ELSE IF r = 50 THEN 0 - 50 ELSE 50

\* The rounding error of n / 100 in units of 2^-59 / 100.
roundingError(n) == residue(n) * 2^binade(n)

\* Math.abs(a - b) > 0.01 for doubles a and b one cent apart: the
\* subtraction is exact, so the difference is 0.01 plus the rounding
\* errors of the two doubles, and it is compared with the double 0.01.
centExceeds(a, b) ==
  LET lo == Min(Abs(a), Abs(b))
      hi == Max(Abs(a), Abs(b))
  IN  lo # 0 /\ roundingError(hi) - roundingError(lo) > roundingError(1)

\* The change threshold: Math.abs(newPrice - originalPrice) > 0.01.  One
\* cent of difference passes it or not with the doubles' rounding.
priceChanged(newPrice, originalPrice) ==
  \/ Abs(newPrice - originalPrice) > 1
  \/ Abs(newPrice - originalPrice) = 1 /\ centExceeds(newPrice, originalPrice)

\* The strategy switch and the price guards' clamp for one item: the
\* candidate before rounding.
guardedPrice(product, updateData) ==
  LET originalPrice == IF updateData.applyTo = "cost_price"
                       THEN product.purchasePrice ELSE product.price
      cand == strategyPrice(originalPrice, updateData)
  IN  IF updateData.priceGuards.enabled
      THEN guardClamp(cand, updateData.priceGuards) ELSE cand

\* A commit that stores the id and the new price alone, not the spread of
\* the stored record.
bulkCommit_priceOnly(acc, product, updateData) ==
  LET guarded == guardedPrice(product, updateData)
      newPrice == roundToDecimals(guarded.num, guarded.den)
      idx == findIndex(acc.products, product.id)
  IN  IF idx # 0
      THEN [acc EXCEPT !.products[idx] =
              [@ EXCEPT !.price = newPrice, !.category = "", !.stock = 0, !.barcode = 0],
                       !.updatedCount = @ + 1]
      ELSE acc

\* The rest of the forEach body for an item the margin check let through:
\* rounding, the change threshold and the commit.  acc is the running
\* [products, updatedCount, conflicts, updateResults].
bulkCommit(acc, product, updateData) ==
  LET costField == updateData.applyTo = "cost_price"
      originalPrice == IF costField THEN product.purchasePrice ELSE product.price
      guarded == guardedPrice(product, updateData)
      newPrice == roundToDecimals(guarded.num, guarded.den)
      idx == findIndex(acc.products, product.id)
      written == IF costField THEN [acc.products[idx] EXCEPT !.purchasePrice = newPrice]
                 ELSE [acc.products[idx] EXCEPT !.price = newPrice]
      withPrev == IF updateData.applyTo \in {"base_price", "filtered_products"}
                  THEN [written EXCEPT !.previousPrice = originalPrice] ELSE written
      withMargin == IF withPrev.price # 0 /\ withPrev.purchasePrice # 0
                    THEN [withPrev EXCEPT !.profitMargin =
                            toFixed2((withPrev.price - withPrev.purchasePrice) * 10000,
                                     withPrev.purchasePrice)]
                    ELSE withPrev
  IN  IF priceChanged(newPrice, originalPrice) /\ idx # 0
      THEN [products |-> [acc.products EXCEPT ![idx] = withMargin],
            updatedCount |-> acc.updatedCount + 1,
            conflicts |-> acc.conflicts,
            updateResults |-> Append(acc.updateResults,
               [productId |-> product.id, oldPrice |-> originalPrice, newPrice |-> newPrice,
                field |-> IF costField THEN "purchasePrice" ELSE "price"])]
      ELSE acc

\* bulkItem without the `return` that follows conflicts.push: the item is
\* recorded as a conflict and goes on to the commit.
bulkItem_noReturn(acc, product, updateData) ==
  IF violatesMargin(guardedPrice(product, updateData), product, updateData)
  THEN bulkCommit([acc EXCEPT !.conflicts =
                     Append(@, [productId |-> product.id, reason |-> "minimum margin"])],
                  product, updateData)
  ELSE bulkCommit(acc, product, updateData)

\* One pass of the forEach body: an item below the enforced margin is
\* recorded as a conflict and left; any other goes on to the commit.
bulkItem(acc, product, updateData) ==
  IF violatesMargin(guardedPrice(product, updateData), product, updateData)
  THEN [acc EXCEPT !.conflicts =
          Append(@, [productId |-> product.id, reason |-> "minimum margin"])]
  ELSE bulkCommit(acc, product, updateData)

RECURSIVE bulkLoop(_, _, _, _)
bulkLoop(acc, filtered, k, updateData) ==
  IF k > Len(filtered) THEN acc
  ELSE bulkLoop(bulkItem(acc, filtered[k], updateData), filtered, k + 1, updateData)

\* bulkUpdatePrices(updateData) on the collection ps: the collection after
\* the call and the report returned (or the error thrown).
bulkUpdatePrices(ps, updateData) ==
  LET validation == validateBulkPriceUpdate(updateData)
      idxs == filteredIdx(ps, updateData)
      filteredProducts == SelectIdx(ps, idxs)
      out == bulkLoop([products |-> ps, updatedCount |-> 0, conflicts |-> <<>>,
                       updateResults |-> <<>>], filteredProducts, 1, updateData)
  IN  IF ~validation.isValid
      THEN [products |-> ps, report |-> Thrown(validation.error)]
      ELSE [products |-> out.products,
            report |-> [ok |-> TRUE, error |-> "", updatedCount |-> out.updatedCount,
                        totalFiltered |-> <<Len(filteredProducts)>>,
                        conflicts |-> out.conflicts,
                        updateResults |-> SubSeq(out.updateResults, 1,
                                                 Min(10, Len(out.updateResults)))]]

-----------------------------------------------------------------------------
(* bulkUpdatePrices of productService.js *)

shouldUpdateProduct_api(product, updateData) ==
  /\ ~(updateData.category # "all" /\ product.category # updateData.category)
  /\ updateData.applyToLowStock =>
       product.stock <= (IF updateData.stockThreshold # 0 THEN updateData.stockThreshold ELSE 10)
  /\ ~(updateData.applyTo = "selected_rows" /\ product.id \notin updateData.selectedRows)

\* calculateNewPrice: the same strategy switch as part_003's, the guards'
\* clamp, and a floor of 1 (100 hundredths) before rounding.
calculateNewPrice_api(product, updateData) ==
  LET cand == strategyPrice(product.price, updateData)
      g == updateData.priceGuards
      lo == IF g.enabled /\ cand.num < g.minPrice * cand.den
            THEN [num |-> g.minPrice, den |-> 1] ELSE cand
      hi == IF g.enabled /\ lo.num > g.maxPrice * lo.den
            THEN [num |-> g.maxPrice, den |-> 1] ELSE lo
      floored == IF hi.num < 100 * hi.den THEN [num |-> 100, den |-> 1] ELSE hi
  IN  roundToDecimals(floored.num, floored.den)

bulkItem_api(acc, i, updateData) ==
  LET product == acc.products[i]
      newPrice == calculateNewPrice_api(product, updateData)
      priced == [product EXCEPT !.price = newPrice]
      profitMetrics == calculateProfitMetrics_api(priced)
      updatedProduct == [priced EXCEPT !.minSellingPrice = profitMetrics.minSellingPrice,
                                       !.profitMargin = profitMetrics.profitMargin]
      index == findIndex(acc.products, product.id)
  IN  IF shouldUpdateProduct_api(product, updateData)
      THEN [acc EXCEPT !.products = [acc.products EXCEPT ![index] = updatedProduct],
                       !.updatedCount = @ + 1]
      ELSE acc

RECURSIVE bulkLoop_api(_, _, _)
bulkLoop_api(acc, i, updateData) ==
  IF i > Len(acc.products) THEN acc
  ELSE bulkLoop_api(bulkItem_api(acc, i, updateData), i + 1, updateData)

bulkUpdatePrices_api(ps, updateData) ==
  LET out == bulkLoop_api([products |-> ps, updatedCount |-> 0], 1, updateData)
  IN  [products |-> out.products,
       report |-> [ok |-> TRUE, error |-> "", updatedCount |-> out.updatedCount,
                   totalFiltered |-> <<>>, conflicts |-> <<>>, updateResults |-> <<>>]]


-----------------------------------------------------------------------------
(* bulkUpdatePricingHierarchy of part_003: a loop that awaits               *)
(* validatePricingHierarchy (a 200 ms delay) for every item it means to    *)
(* write, so other calls of the service run between its items.             *)

\* The loop body up to the await: the updates built from the snapshot
\* item, and whether the item goes on to validation.
hierItem(product, updateData) ==
  LET originalPrice == IF product.basePrice # 0 THEN product.basePrice ELSE product.price
      cand == IF updateData.strategy \in {"percentage", "fixed"}
              THEN strategyPrice(originalPrice, updateData)
              ELSE [num |-> originalPrice, den |-> 1]
      newBase == roundToDecimals(cand.num, cand.den)
      setDiscount == [product EXCEPT
                        !.seasonalDiscount = updateData.seasonalDiscount,
                        !.seasonalDiscountType =
                           IF updateData.seasonalDiscountType = "" THEN "Fixed Amount"
                           ELSE updateData.seasonalDiscountType,
                        !.seasonalDiscountActive = updateData.seasonalDiscountActive]
      mergeDiscount == [product EXCEPT
                        !.seasonalDiscount = updateData.seasonalDiscount,
                        !.seasonalDiscountType = updateData.seasonalDiscountType,
                        !.seasonalDiscountActive = updateData.seasonalDiscountActive]
      keep == [shouldUpdate |-> TRUE, updates |-> product, conflict |-> FALSE]
  IN  CASE updateData.updateType = "base_price" ->
             [keep EXCEPT !.updates = [product EXCEPT !.basePrice = newBase, !.price = newBase]]
        [] updateData.updateType = "variation_price" /\ updateData.variationPrice # 0 ->
             [keep EXCEPT !.updates = [product EXCEPT !.variationPrice = updateData.variationPrice]]
        [] updateData.updateType = "seasonal_discount" /\ product.seasonalDiscount > 0 ->
             (CASE updateData.conflictResolution = "skip" ->
                     [shouldUpdate |-> FALSE, updates |-> product, conflict |-> TRUE]
                [] updateData.conflictResolution = "override" ->
                     [keep EXCEPT !.updates = setDiscount]
                [] updateData.conflictResolution = "merge" ->
                     IF updateData.seasonalDiscount > product.seasonalDiscount
                     THEN [keep EXCEPT !.updates = mergeDiscount]
                     ELSE [shouldUpdate |-> FALSE, updates |-> product, conflict |-> FALSE]
                [] OTHER -> keep)
        [] updateData.updateType = "seasonal_discount" ->
             [keep EXCEPT !.updates = setDiscount]
        [] OTHER -> keep

\* A commit that spreads the stored record over the updates: only the
\* effective price is written.
hierCommit_keepStored(ps, updates) ==
  LET productIndex == findIndex(ps, updates.id)
  IN  IF productIndex = 0 THEN ps
      ELSE [ps EXCEPT ![productIndex] =
              [@ EXCEPT !.effectivePrice = calculateHierarchyPrice(updates)]]

\* The commit: {...this.products[index], ...updates, effectivePrice}.  The
\* updates carry every field of the snapshot item, so the stored record is
\* replaced by them.
hierCommit(ps, updates) ==
  LET productIndex == findIndex(ps, updates.id)
  IN  IF productIndex = 0 THEN ps
      ELSE [ps EXCEPT ![productIndex] =
              [updates EXCEPT !.effectivePrice = calculateHierarchyPrice(updates)]]

\* The loop without the conflictProducts.push of the skip case.
RECURSIVE hierRun_dropConflict(_)
hierRun_dropConflict(h) ==
  IF h.i > Len(h.filtered) THEN [h EXCEPT !.pc = "done"]
  ELSE LET it == hierItem(h.filtered[h.i], h.req)
       IN  IF it.shouldUpdate THEN [h EXCEPT !.pc = "await", !.updates = it.updates]
           ELSE hierRun_dropConflict([h EXCEPT !.i = @ + 1])

\* Run the loop from item h.i on, without suspending, up to the next item
\* that awaits validation (pc "await") or to the end (pc "done").
RECURSIVE hierRun(_)
hierRun(h) ==
  IF h.i > Len(h.filtered) THEN [h EXCEPT !.pc = "done"]
  ELSE LET it == hierItem(h.filtered[h.i], h.req)
       IN  IF it.shouldUpdate THEN [h EXCEPT !.pc = "await", !.updates = it.updates]
           ELSE hierRun([h EXCEPT !.i = @ + 1,
                           !.conflictProducts =
                              IF it.conflict
                              THEN Append(@, [productId |-> h.filtered[h.i].id,
                                              reason |-> "existing seasonal discount"])
                              ELSE @])

\* A report that counts every filtered item as updated.
hierReport_countAll(h) ==
  [ok |-> TRUE, error |-> "", updatedCount |-> Len(h.filtered),
   totalFiltered |-> <<Len(h.filtered)>>,
   conflictCount |-> Len(h.conflictProducts),
   conflicts |-> SubSeq(h.conflictProducts, 1, Min(5, Len(h.conflictProducts))),
   updateResults |-> SubSeq(h.hierarchyUpdates, 1, Min(10, Len(h.hierarchyUpdates)))]

hierReport(h) ==
  [ok |-> TRUE, error |-> "", updatedCount |-> h.updatedCount,
   totalFiltered |-> <<Len(h.filtered)>>,
   conflictCount |-> Len(h.conflictProducts),
   conflicts |-> SubSeq(h.conflictProducts, 1, Min(5, Len(h.conflictProducts))),
   updateResults |-> SubSeq(h.hierarchyUpdates, 1, Min(10, Len(h.hierarchyUpdates)))]

\* The indexes bulkUpdatePricingHierarchy selects: category, then stock.
hierFilteredIdx(ps, updateData) ==
  {i \in 1..Len(ps) :
     /\ updateData.category # "all" => ps[i].category = updateData.category
     /\ updateData.applyToLowStock => ps[i].stock <= updateData.stockThreshold}

HierIdle == [pc |-> "idle"]

-----------------------------------------------------------------------------
(* Single-item operations.  A payload (productData, priceData) carries its  *)
(* optional numeric fields as <<>> (not given) or <<n>>, and its optional   *)
(* strings as "" (not given).  A barcode is a number standing for the      *)
(* string, 0 for none.                                                     *)

\* A record with no field set.
Absent ==
  [id |-> 0, barcode |-> 0, category |-> "", stock |-> 0, price |-> 0,
   purchasePrice |-> 0, previousPrice |-> 0, basePrice |-> 0, variationPrice |-> 0,
   discountValue |-> 0, discountType |-> "",
   seasonalDiscount |-> 0, seasonalDiscountType |-> "",
   seasonalDiscountActive |-> FALSE,
   seasonalDiscountStartDate |-> 0, seasonalDiscountEndDate |-> 0,
   profitMargin |-> 0, minSellingPrice |-> 0, effectivePrice |-> 0]

GeneratedBase == 1000

\* The value of an optional numeric field read through `x || 0`.
OrZero(x) == IF x = <<>> THEN 0 ELSE x[1]

\* {...product, ...productData}: every field the payload gives replaces the
\* product's, the id included.
spread(product, productData) ==
  [product EXCEPT
     !.id = IF productData.id # <<>> THEN productData.id[1] ELSE @,
     !.barcode = IF productData.barcode # 0 THEN productData.barcode ELSE @,
     !.category = IF productData.category # "" THEN productData.category ELSE @,
     !.stock = IF productData.stock # <<>> THEN productData.stock[1] ELSE @,
     !.price = IF productData.price # <<>> THEN Stored(productData.price) ELSE @,
     !.purchasePrice = IF productData.purchasePrice # <<>>
                       THEN Stored(productData.purchasePrice) ELSE @,
     !.discountValue = IF productData.discountValue # <<>> THEN productData.discountValue[1] ELSE @,
     !.discountType = IF productData.discountType # "" THEN productData.discountType ELSE @]

\* Array.splice(index, 1).
splice(ps, index) == SubSeq(ps, 1, index - 1) \o SubSeq(ps, index + 1, Len(ps))

\* The result of a single-item call: what it leaves of the collection and
\* of the id counter, and whether it returned (ok) or threw (error).
Result(ps, n, err) == [products |-> ps, nextId |-> n, ok |-> err = "", error |-> err]

\* getNextId of part_003: the largest id of the collection, plus one.
RECURSIVE maxId(_, _, _)
maxId(ps, k, max) ==
  IF k > Len(ps) THEN max
  ELSE maxId(ps, k + 1, IF ps[k].id > max THEN ps[k].id ELSE max)

getNextId(ps) == maxId(ps, 1, 0) + 1

\* create of part_003.  The object literal is {id: getNextId(),
\* ...productData, price, purchasePrice, ...}: an id in the payload replaces
\* the generated one; minSellingPrice and profitMargin are the payload's
\* (0 when it gives none).
create(ps, n, productData) ==
  IF productData.name = "" \/ OrZero(productData.price) = 0 \/ productData.stock = <<>>
    THEN Result(ps, n, "Name, price, and stock are required fields")
  ELSE IF productData.price[1] <= 0
    THEN Result(ps, n, "Price must be greater than 0")
  ELSE IF productData.stock[1] < 0
    THEN Result(ps, n, "Stock cannot be negative")
  ELSE LET withId == [Absent EXCEPT !.id = getNextId(ps)]
           newProduct == [spread(withId, productData) EXCEPT
                            !.purchasePrice = OrZero(productData.purchasePrice),
                            !.discountValue = OrZero(productData.discountValue)]
       IN  Result(Append(ps, newProduct), n, "")

\* The barcode create of productService.js makes up from the clock and a
\* random string: one per call, and none of the seed's.
generatedBarcode(n) == GeneratedBase + n

\* create of productService.js: {id: this.getNextId(), ...productData,
\* ...profitMetrics, ...}.  The counter moves even when the payload's id
\* replaces the generated one.
create_api(ps, n, productData) ==
  IF productData.name = ""
    THEN Result(ps, n, "Product name is required")
  ELSE IF OrZero(productData.price) = 0 \/ productData.price[1] <= 0
    THEN Result(ps, n, "Valid price is required")
  ELSE IF productData.category = ""
    THEN Result(ps, n, "Category is required")
  ELSE LET withId == [Absent EXCEPT !.id = n]
           spreadData == spread(withId, productData)
           profitMetrics == calculateProfitMetrics_api(spreadData)
           newProduct == [spreadData EXCEPT
                            !.minSellingPrice = profitMetrics.minSellingPrice,
                            !.profitMargin = profitMetrics.profitMargin,
                            !.barcode = IF productData.barcode # 0 THEN productData.barcode
                                        ELSE generatedBarcode(n)]
       IN  Result(Append(ps, newProduct), n + 1, "")

\* update of part_003: {...this.products[index], ...productData, id}.
update(ps, n, id, productData) ==
  LET index == findIndex(ps, id)
  IN  IF index = 0 THEN Result(ps, n, "Product not found")
      ELSE IF productData.price # <<>> /\ productData.price[1] <= 0
        THEN Result(ps, n, "Price must be greater than 0")
      ELSE IF productData.stock # <<>> /\ productData.stock[1] < 0
        THEN Result(ps, n, "Stock cannot be negative")
      ELSE Result([ps EXCEPT ![index] =
                     [spread(ps[index], productData) EXCEPT !.id = ps[index].id]], n, "")

\* update of productService.js: the profit metrics are recomputed when the
\* payload's price, purchasePrice or discountValue is truthy; the payload's
\* id is spread over the stored one.
update_api(ps, n, id, productData) ==
  LET index == findIndex(ps, id)
      updatedData == spread(ps[index], productData)
      profitMetrics == calculateProfitMetrics_api(updatedData)
      recompute == \/ Truthy(productData.price)
                   \/ Truthy(productData.purchasePrice)
                   \/ OrZero(productData.discountValue) # 0
  IN  IF index = 0 THEN Result(ps, n, "Product not found")
      ELSE Result([ps EXCEPT ![index] =
                     IF recompute
                     THEN [updatedData EXCEPT
                             !.minSellingPrice = profitMetrics.minSellingPrice,
                             !.profitMargin = profitMetrics.profitMargin]
                     ELSE updatedData], n, "")

\* The fields getAll and getById of part_003 leave out for a reader who is
\* not an admin.
Financial == {"purchasePrice", "minSellingPrice", "profitMargin"}

\* const {purchasePrice, minSellingPrice, profitMargin, ...filteredProduct}
\* = product.
filteredProduct(product) == [f \in DOMAIN product \ Financial |-> product[f]]

\* getAll of part_003.
getAll(ps, userRole) ==
  IF userRole # "admin" THEN [i \in 1..Len(ps) |-> filteredProduct(ps[i])] ELSE ps

\* getById of part_003: the product found, as a sequence of one, or the
\* error thrown.
getById(ps, id, userRole) ==
  LET index == findIndex(ps, id)
  IN  IF index = 0 THEN [ok |-> FALSE, error |-> "Product not found", product |-> <<>>]
      ELSE [ok |-> TRUE, error |-> "",
            product |-> IF userRole # "admin" THEN <<filteredProduct(ps[index])>>
                        ELSE <<ps[index]>>]

\* getAll of productService.js: a customer gets the products whose
\* isVisible is not false (no product of the model has isVisible false),
\* any other role the whole array.
getAll_api(ps, userRole) == ps

\* getById of productService.js.
getById_api(ps, id, userRole) ==
  LET index == findIndex(ps, id)
  IN  IF index = 0 THEN [ok |-> FALSE, error |-> "Product not found", product |-> <<>>]
      ELSE [ok |-> TRUE, error |-> "", product |-> <<ps[index]>>]

\* delete, the same in both classes.
delete(ps, n, id) ==
  LET index == findIndex(ps, id)
  IN  IF index = 0 THEN Result(ps, n, "Product not found")
      ELSE Result(splice(ps, index), n, "")

\* updateProductPrices of part_003.
updateProductPrices(ps, n, productId, priceData) ==
  LET productIndex == findIndex(ps, productId)
      validation == validatePriceUpdate(priceData)
      product == ps[productIndex]
      newPrice == IF OrZero(priceData.price) # 0 THEN priceData.price[1] ELSE product.price
      newCostPrice == IF OrZero(priceData.purchasePrice) # 0 THEN priceData.purchasePrice[1]
                      ELSE product.purchasePrice
      priced == [product EXCEPT
                   !.price = IF priceData.price # <<>> THEN priceData.price[1] ELSE @,
                   !.purchasePrice = IF priceData.purchasePrice # <<>>
                                     THEN priceData.purchasePrice[1] ELSE @]
  IN  IF productIndex = 0 THEN Result(ps, n, "Product not found")
      ELSE IF ~validation.isValid THEN Result(ps, n, validation.error)
      ELSE Result([ps EXCEPT ![productIndex] =
                     IF newCostPrice > 0
                     THEN [priced EXCEPT
                             !.profitMargin =
                                roundToDecimals((newPrice - newCostPrice) * 10000, newCostPrice),
                             !.minSellingPrice = roundToDecimals(newCostPrice * 11, 10)]
                     ELSE priced], n, "")

\* updateProductPrices of productService.js: the validator, then update.
updateProductPrices_api(ps, n, productId, priceData) ==
  LET validation == validatePriceUpdate_api(priceData)
  IN  IF ~validation.isValid THEN Result(ps, n, validation.error)
      ELSE update_api(ps, n, productId, priceData)

\* addSeasonalDiscount of productService.js: update with the discount as
\* discountValue / discountType.
addSeasonalDiscount_api(ps, n, productId, discountData) ==
  update_api(ps, n, productId,
             [name |-> "", category |-> "", id |-> <<>>, barcode |-> 0, price |-> <<>>,
              purchasePrice |-> <<>>, stock |-> <<>>,
              discountValue |-> <<discountData.value>>, discountType |-> discountData.type])

\* The write that ends addSeasonalDiscount of part_003, at the index found
\* before the await of validatePricingHierarchy.
seasonalWrite(ps, productIndex, discountData) ==
  [ps EXCEPT ![productIndex] =
     [@ EXCEPT !.seasonalDiscount = discountData.seasonalDiscount,
               !.seasonalDiscountType = IF discountData.seasonalDiscountType = ""
                                        THEN "Fixed Amount" ELSE discountData.seasonalDiscountType,
               !.seasonalDiscountActive = discountData.seasonalDiscountActive,
               !.seasonalDiscountStartDate = discountData.seasonalDiscountStartDate,
               !.seasonalDiscountEndDate = discountData.seasonalDiscountEndDate]]

-----------------------------------------------------------------------------
(* The collection and the requests *)

\* The seed's barcodes are SeedBarcode + id; the generated ones are above
\* GeneratedBase.
SeedBarcode == 100

Product(id, category, stock, price, purchasePrice, seasonalDiscount) ==
  LET p == [id |-> id, barcode |-> SeedBarcode + id, category |-> category, stock |-> stock,
            price |-> price, purchasePrice |-> purchasePrice,
            previousPrice |-> 0, basePrice |-> 0, variationPrice |-> 0,
            discountValue |-> 0, discountType |-> "",
            seasonalDiscount |-> seasonalDiscount,
            seasonalDiscountType |-> IF seasonalDiscount > 0 THEN "Percentage" ELSE "",
            seasonalDiscountActive |-> seasonalDiscount > 0,
            seasonalDiscountStartDate |-> IF seasonalDiscount > 0 THEN 5 ELSE 0,
            seasonalDiscountEndDate |-> IF seasonalDiscount > 0 THEN 20 ELSE 0,
            profitMargin |-> calculateMarginPercentage_api(price, 1, purchasePrice),
            minSellingPrice |-> IF purchasePrice > 0 THEN roundToDecimals(purchasePrice * 11, 10) ELSE 0,
            effectivePrice |-> 0]
  IN  [p EXCEPT !.effectivePrice = calculateHierarchyPrice(p)]

\* The seed of the collection ([...productsData]).
productsData ==
  << Product(1, "Groceries", 5, 100000, 70000, 0),
     Product(2, "Dairy", 50, 12000, 0, 0),
     Product(3, "Dairy", 8, 3000, 2000, 1000) >>

NoGuards ==
  [enabled |-> FALSE, minPrice |-> 0, maxPrice |-> 0, enforceMargin |-> FALSE, minMargin |-> 0]

GuardSetEnforce ==
  [enabled |-> TRUE, minPrice |-> 5000, maxPrice |-> 150000, enforceMargin |-> TRUE, minMargin |-> 1000]

GuardSet ==
  { NoGuards, GuardSetEnforce,
    [enabled |-> TRUE, minPrice |-> 5000, maxPrice |-> 20000, enforceMargin |-> FALSE, minMargin |-> 0] }

\* strategy with its value or range; "" and 0 are a missing field.
StrategySet ==
  { [strategy |-> "percentage", value |-> 0 - 4000, minPrice |-> 0, maxPrice |-> 0],
    [strategy |-> "percentage", value |-> 1000, minPrice |-> 0, maxPrice |-> 0],
    [strategy |-> "fixed", value |-> 1, minPrice |-> 0, maxPrice |-> 0],
    [strategy |-> "fixed", value |-> 0 - 5000, minPrice |-> 0, maxPrice |-> 0],
    [strategy |-> "range", value |-> 0, minPrice |-> 5000, maxPrice |-> 20000],
    [strategy |-> "range", value |-> 0, minPrice |-> 5000, maxPrice |-> 0],
    [strategy |-> "percentage", value |-> 0, minPrice |-> 0, maxPrice |-> 0],
    [strategy |-> "", value |-> 1000, minPrice |-> 0, maxPrice |-> 0] }

TargetSet ==
  { [applyTo |-> "base_price", selectedRows |-> {}, category |-> "all", applyToLowStock |-> FALSE],
    [applyTo |-> "cost_price", selectedRows |-> {}, category |-> "all", applyToLowStock |-> FALSE],
    [applyTo |-> "filtered_products", selectedRows |-> {}, category |-> "Dairy", applyToLowStock |-> TRUE],
    [applyTo |-> "selected_rows", selectedRows |-> {1, 2}, category |-> "all", applyToLowStock |-> FALSE],
    [applyTo |-> "selected_rows", selectedRows |-> {1, 2}, category |-> "Dairy", applyToLowStock |-> TRUE],
    [applyTo |-> "selected_rows", selectedRows |-> {}, category |-> "all", applyToLowStock |-> FALSE],
    [applyTo |-> "", selectedRows |-> {}, category |-> "all", applyToLowStock |-> FALSE] }

Request(s, t, g, h) ==
  [strategy |-> s.strategy, value |-> s.value, minPrice |-> s.minPrice, maxPrice |-> s.maxPrice,
   applyTo |-> t.applyTo, selectedRows |-> t.selectedRows, category |-> t.category,
   applyToLowStock |-> t.applyToLowStock, stockThreshold |-> 10,
   priceGuards |-> g,
   updateType |-> h.updateType, conflictResolution |-> h.conflictResolution,
   seasonalDiscount |-> h.seasonalDiscount, seasonalDiscountType |-> h.seasonalDiscountType,
   seasonalDiscountActive |-> h.seasonalDiscountActive, variationPrice |-> h.variationPrice]

NoHierarchy ==
  [updateType |-> "", conflictResolution |-> "", seasonalDiscount |-> 0,
   seasonalDiscountType |-> "", seasonalDiscountActive |-> FALSE, variationPrice |-> 0]

\* A price guard whose minimum is not below its maximum.
BadGuards ==
  [enabled |-> TRUE, minPrice |-> 5000, maxPrice |-> 5000, enforceMargin |-> FALSE, minMargin |-> 0]

WellFormedStrategy(s) ==
  /\ s.strategy # ""
  /\ s.strategy = "range" => s.minPrice # 0 /\ s.maxPrice # 0
  /\ s.strategy # "range" => s.value # 0

WellFormedTarget(t) ==
  /\ t.applyTo # ""
  /\ t.applyTo = "selected_rows" => t.selectedRows # {}

\* The requests given to bulkUpdatePrices: every well-formed strategy on
\* every well-formed target under every guard, and each malformed part
\* with well-formed others.
BulkRequests ==
  {Request(s, t, g, NoHierarchy) :
     s \in {x \in StrategySet : WellFormedStrategy(x)},
     t \in {x \in TargetSet : WellFormedTarget(x)}, g \in GuardSet}
  \cup
  {Request(s, t, NoGuards, NoHierarchy) :
     s \in {x \in StrategySet : ~WellFormedStrategy(x)},
     t \in {x \in TargetSet : x.applyTo = "base_price"}}
  \cup
  {Request(s, t, g, NoHierarchy) :
     s \in {x \in StrategySet : x.strategy = "percentage" /\ x.value = 1000},
     t \in {x \in TargetSet : ~WellFormedTarget(x)}, g \in {NoGuards, GuardSetEnforce}}
  \cup
  {Request(s, t, BadGuards, NoHierarchy) :
     s \in {x \in StrategySet : x.strategy = "percentage" /\ x.value = 1000},
     t \in {x \in TargetSet : x.applyTo = "base_price"}}

HierarchySet ==
  { [NoHierarchy EXCEPT !.updateType = "base_price"],
    [NoHierarchy EXCEPT !.updateType = "variation_price", !.variationPrice = 8000] }
  \cup
  { [NoHierarchy EXCEPT !.updateType = "seasonal_discount", !.conflictResolution = r,
                        !.seasonalDiscount = d, !.seasonalDiscountType = "Percentage",
                        !.seasonalDiscountActive = TRUE] :
      r \in {"skip", "override", "merge"}, d \in {500, 1000, 1500, 3000, 8000} }

\* The requests given to bulkUpdatePricingHierarchy.
HierarchyRequests ==
  {Request(s, t, NoGuards, h) :
     s \in {x \in StrategySet : x.strategy \in {"percentage", ""} /\ x.value = 1000},
     t \in {x \in TargetSet : x.applyTo = "base_price" \/ x.applyTo = "filtered_products"},
     h \in HierarchySet}


\* A payload of create, update and updateProductPrices.
Payload(id, price, purchasePrice, discountValue, discountType) ==
  [name |-> "", category |-> "", stock |-> <<>>, id |-> id, barcode |-> 0, price |-> price,
   purchasePrice |-> purchasePrice, discountValue |-> discountValue,
   discountType |-> discountType]

\* The payloads given to update and updateProductPrices: new prices, a
\* negative price, a payload that carries an id, a cost of 0 alone, a
\* discount alone, a price below the cost, a negative cost.
PayloadSet ==
  { Payload(<<>>, <<15000>>, <<9000>>, <<>>, ""),
    Payload(<<>>, <<5000>>, <<9000>>, <<>>, ""),
    Payload(<<>>, <<>>, <<0 - 100>>, <<>>, ""),
    Payload(<<>>, <<0 - 100>>, <<>>, <<>>, ""),
    Payload(<<1>>, <<2500>>, <<>>, <<>>, ""),
    Payload(<<>>, <<>>, <<0>>, <<>>, ""),
    Payload(<<>>, <<>>, <<>>, <<1000>>, "Percentage") }

\* The payloads given to create: the same with a name, a category and a
\* stock, one without a name, and one with the barcode of a seed product.
CreateSet ==
  {[p EXCEPT !.name = "x", !.category = "Dairy", !.stock = <<5>>] : p \in PayloadSet}
  \cup {[Payload(<<>>, <<15000>>, <<9000>>, <<>>, "") EXCEPT !.stock = <<5>>]}
  \cup {[Payload(<<>>, <<15000>>, <<9000>>, <<>>, "") EXCEPT
          !.name = "x", !.category = "Dairy", !.stock = <<5>>, !.barcode = SeedBarcode + 1]}

\* The ids given to the single-item calls; 4 is no seed product's.
IdSet == 1..4

\* The discountData given to addSeasonalDiscount (part_003 reads the
\* seasonal* fields, productService.js reads value and type).
DiscountSet ==
  {[seasonalDiscount |-> d, seasonalDiscountType |-> "Percentage",
    seasonalDiscountActive |-> TRUE,
    seasonalDiscountStartDate |-> 5, seasonalDiscountEndDate |-> 20,
    value |-> d, type |-> "Percentage"] : d \in {1000, 8000}}


-----------------------------------------------------------------------------
(* The service: its calls as actions *)

Services == {"part_003", "api"}

PendIdle == [pc |-> "idle"]

\* The ids of the stored products.
StoredIds(ps) == {ps[i].id : i \in 1..Len(ps)}

NoCall == [op |-> "none"]

Init ==
  /\ svc \in Services
  /\ products = productsData
  /\ hier = HierIdle
  /\ last = NoCall
  /\ calls = 0
  /\ call = NoCall
  /\ nextId = IF svc = "api" THEN maxId(productsData, 1, 0) + 1 ELSE 0
  /\ pend = PendIdle
  /\ everIds = StoredIds(productsData)

\* bulkUpdatePrices of part_003: once its delay(500) is over the call runs
\* to its return without suspending.
DoBulkUpdatePrices ==
  /\ svc = "part_003"
  /\ calls < MaxCalls
  /\ \E updateData \in BulkRequests :
       LET r == bulkUpdatePrices(products, updateData)
       IN  /\ products' = r.products
           /\ last' = [op |-> "bulkUpdatePrices", req |-> updateData,
                       before |-> products, report |-> r.report]
  /\ calls' = calls + 1
  /\ UNCHANGED <<svc, hier, call, nextId, pend, everIds>>

\* bulkUpdatePrices of productService.js.
DoBulkUpdatePrices_api ==
  /\ svc = "api"
  /\ calls < MaxCalls
  /\ \E updateData \in BulkRequests :
       LET r == bulkUpdatePrices_api(products, updateData)
       IN  /\ products' = r.products
           /\ last' = [op |-> "bulkUpdatePrices", req |-> updateData,
                       before |-> products, report |-> r.report]
  /\ calls' = calls + 1
  /\ UNCHANGED <<svc, hier, call, nextId, pend, everIds>>

\* What a bulkUpdatePricingHierarchy call leaves when it suspends (h.pc is
\* "await") or returns (h.pc is "done").
hierSettle(h) ==
  IF h.pc = "done"
  THEN /\ hier' = HierIdle
       /\ last' = [op |-> "bulkUpdatePricingHierarchy", req |-> h.req,
                   before |-> h.before, report |-> hierReport(h)]
  ELSE /\ hier' = h
       /\ last' = last

\* bulkUpdatePricingHierarchy of part_003, from the end of its delay(500):
\* the validation gate, the snapshot of the filtered products, and the loop
\* up to its first await.
DoBulkUpdatePricingHierarchy ==
  /\ svc = "part_003"
  /\ hier.pc = "idle"
  /\ calls < MaxCalls
  /\ \E updateData \in HierarchyRequests :
       LET validation == validateBulkPriceUpdate(updateData)
           h0 == [pc |-> "run", req |-> updateData, before |-> products,
                  filtered |-> SelectIdx(products, hierFilteredIdx(products, updateData)),
                  i |-> 1, updates |-> <<>>, updatedCount |-> 0,
                  conflictProducts |-> <<>>, hierarchyUpdates |-> <<>>]
       IN  IF ~validation.isValid
           THEN /\ last' = [op |-> "bulkUpdatePricingHierarchy", req |-> updateData,
                            before |-> products, report |-> Thrown(validation.error)]
                /\ hier' = hier
           ELSE hierSettle(hierRun(h0))
  /\ calls' = calls + 1
  /\ UNCHANGED <<svc, products, call, nextId, pend, everIds>>

\* The await of validatePricingHierarchy returns: the item is recorded as
\* a conflict or committed, and the loop runs on to its next await or to
\* the return.
DoHierarchyResume ==
  /\ hier.pc = "await"
  /\ LET hierarchyValidation == validatePricingHierarchy(hier.updates)
         found == findIndex(products, hier.updates.id) # 0
         h1 == IF ~hierarchyValidation.isValid
               THEN [hier EXCEPT !.conflictProducts =
                       Append(@, [productId |-> hier.updates.id, reason |-> "hierarchy"])]
               ELSE IF found
               THEN [hier EXCEPT !.updatedCount = @ + 1,
                                 !.hierarchyUpdates = Append(@, [productId |-> hier.updates.id])]
               ELSE hier
     IN  /\ products' = IF hierarchyValidation.isValid
                        THEN hierCommit(products, hier.updates) ELSE products
         /\ hierSettle(hierRun([h1 EXCEPT !.i = @ + 1]))
  /\ UNCHANGED <<svc, calls, call, nextId, pend, everIds>>

\* What a single-item call leaves when it returns or throws.
settle(op, id, req, r) ==
  /\ products' = r.products
  /\ nextId' = r.nextId
  /\ everIds' = everIds \cup StoredIds(r.products)
  /\ last' = [op |-> op, id |-> id, req |-> req, before |-> products,
              report |-> [ok |-> r.ok, error |-> r.error]]

DoCreate ==
  /\ svc = "part_003"
  /\ calls < MaxCalls
  /\ \E productData \in CreateSet :
       settle("create", 0, productData, create(products, nextId, productData))
  /\ calls' = calls + 1
  /\ UNCHANGED <<svc, hier, call, pend>>

DoCreate_api ==
  /\ svc = "api"
  /\ calls < MaxCalls
  /\ \E productData \in CreateSet :
       settle("create", 0, productData, create_api(products, nextId, productData))
  /\ calls' = calls + 1
  /\ UNCHANGED <<svc, hier, call, pend>>

DoUpdate ==
  /\ svc = "part_003"
  /\ calls < MaxCalls
  /\ \E id \in IdSet, productData \in PayloadSet :
       settle("update", id, productData, update(products, nextId, id, productData))
  /\ calls' = calls + 1
  /\ UNCHANGED <<svc, hier, call, pend>>

DoUpdate_api ==
  /\ svc = "api"
  /\ calls < MaxCalls
  /\ \E id \in IdSet, productData \in PayloadSet :
       settle("update", id, productData, update_api(products, nextId, id, productData))
  /\ calls' = calls + 1
  /\ UNCHANGED <<svc, hier, call, pend>>

\* delete, of either class.  While an addSeasonalDiscount call is suspended
\* on the index it found, a delete is taken only if that index stays inside
\* the array.
DoDelete ==
  /\ calls < MaxCalls
  /\ pend.pc = "await" => pend.productIndex < Len(products)
  /\ \E id \in IdSet : settle("delete", id, <<>>, delete(products, nextId, id))
  /\ calls' = calls + 1
  /\ UNCHANGED <<svc, hier, call, pend>>

\* The roles given to getAll and getById.
RoleSet == {"admin", "customer"}

\* getAll and getById: call keeps the arguments, the collection read and
\* the result.
DoGetAll ==
  /\ svc = "part_003"
  /\ calls < MaxCalls
  /\ \E userRole \in RoleSet :
       call' = [op |-> "getAll", id |-> 0, userRole |-> userRole, before |-> products,
                ret |-> [ok |-> TRUE, error |-> "", product |-> getAll(products, userRole)]]
  /\ calls' = calls + 1
  /\ UNCHANGED <<svc, products, hier, last, nextId, pend, everIds>>

DoGetAll_api ==
  /\ svc = "api"
  /\ calls < MaxCalls
  /\ \E userRole \in RoleSet :
       call' = [op |-> "getAll", id |-> 0, userRole |-> userRole, before |-> products,
                ret |-> [ok |-> TRUE, error |-> "", product |-> getAll_api(products, userRole)]]
  /\ calls' = calls + 1
  /\ UNCHANGED <<svc, products, hier, last, nextId, pend, everIds>>

DoGetById ==
  /\ svc = "part_003"
  /\ calls < MaxCalls
  /\ \E id \in {1, 4}, userRole \in RoleSet :
       call' = [op |-> "getById", id |-> id, userRole |-> userRole, before |-> products,
                ret |-> getById(products, id, userRole)]
  /\ calls' = calls + 1
  /\ UNCHANGED <<svc, products, hier, last, nextId, pend, everIds>>

DoGetById_api ==
  /\ svc = "api"
  /\ calls < MaxCalls
  /\ \E id \in {1, 4}, userRole \in RoleSet :
       call' = [op |-> "getById", id |-> id, userRole |-> userRole, before |-> products,
                ret |-> getById_api(products, id, userRole)]
  /\ calls' = calls + 1
  /\ UNCHANGED <<svc, products, hier, last, nextId, pend, everIds>>

DoUpdateProductPrices ==
  /\ svc = "part_003"
  /\ calls < MaxCalls
  /\ \E productId \in IdSet, priceData \in PayloadSet :
       settle("updateProductPrices", productId, priceData,
              updateProductPrices(products, nextId, productId, priceData))
  /\ calls' = calls + 1
  /\ UNCHANGED <<svc, hier, call, pend>>

DoUpdateProductPrices_api ==
  /\ svc = "api"
  /\ calls < MaxCalls
  /\ \E productId \in IdSet, priceData \in PayloadSet :
       settle("updateProductPrices", productId, priceData,
              updateProductPrices_api(products, nextId, productId, priceData))
  /\ calls' = calls + 1
  /\ UNCHANGED <<svc, hier, call, pend>>

DoAddSeasonalDiscount_api ==
  /\ svc = "api"
  /\ calls < MaxCalls
  /\ \E productId \in IdSet, discountData \in DiscountSet :
       settle("addSeasonalDiscount", productId, discountData,
              addSeasonalDiscount_api(products, nextId, productId, discountData))
  /\ calls' = calls + 1
  /\ UNCHANGED <<svc, hier, call, pend>>

\* addSeasonalDiscount of part_003, up to its await of
\* validatePricingHierarchy: the index is looked up and the validation is
\* given the product as it is now, with the discount spread over it.
DoAddSeasonalDiscount ==
  /\ svc = "part_003"
  /\ pend.pc = "idle"
  /\ calls < MaxCalls
  /\ \E productId \in IdSet, discountData \in DiscountSet :
       LET productIndex == findIndex(products, productId)
           merged == [products[productIndex] EXCEPT
                        !.seasonalDiscount = discountData.seasonalDiscount,
                        !.seasonalDiscountType = discountData.seasonalDiscountType]
       IN  IF productIndex = 0
           THEN /\ pend' = pend
                /\ last' = [op |-> "addSeasonalDiscount", id |-> productId,
                            req |-> discountData, before |-> products,
                            report |-> [ok |-> FALSE, error |-> "Product not found"]]
           ELSE /\ pend' = [pc |-> "await", productIndex |-> productIndex,
                            id |-> productId, discountData |-> discountData,
                            before |-> products,
                            isValid |-> validatePricingHierarchy(merged).isValid]
                /\ last' = last
  /\ calls' = calls + 1
  /\ UNCHANGED <<svc, products, hier, call, nextId, everIds>>

\* The await of addSeasonalDiscount returns: the call throws, or writes the
\* discount at the index it found before the await.
DoSeasonalResume ==
  /\ pend.pc = "await"
  /\ products' = IF pend.isValid
                 THEN seasonalWrite(products, pend.productIndex, pend.discountData)
                 ELSE products
  /\ last' = [op |-> "addSeasonalDiscount", id |-> pend.id, req |-> pend.discountData,
              before |-> products,
              report |-> [ok |-> pend.isValid,
                          error |-> IF pend.isValid THEN ""
                                    ELSE "Invalid seasonal discount configuration"]]
  /\ pend' = PendIdle
  /\ UNCHANGED <<svc, hier, calls, call, nextId, everIds>>

\* Arguments of validatePricingHierarchy given by a caller of the service.
HierValidateInputs ==
  {[basePrice |-> 0, price |-> 10000, variationPrice |-> v, purchasePrice |-> c,
    seasonalDiscount |-> d, seasonalDiscountType |-> t,
    seasonalDiscountStartDate |-> r[1], seasonalDiscountEndDate |-> r[2]] :
     v \in {0, 8000}, c \in {0, 4000},
     d \in {0, 1000, 9000, 15000}, t \in {"Percentage", "Fixed Amount"},
     r \in {<<0, 0>>, <<5, 20>>}}

\* The calls of validatePricingHierarchy of part_003 on the service, with
\* this.products as allProducts.  The result is computed from the arguments
\* and, for the warnings, from the collection; the method's delay(200)
\* comes before it reads either.
validatePricingHierarchyCall ==
  \E productData \in HierValidateInputs, category \in {"Dairy", "Groceries"},
     excludeId \in {0, 3} :
    call' = [op |-> "validatePricingHierarchy", arg |-> productData,
             category |-> category, excludeId |-> excludeId,
             ret |-> [isValid |-> validatePricingHierarchy(productData).isValid,
                      conflicts |-> validatePricingHierarchy(productData).conflicts,
                      warnings |-> hierarchyWarnings(productData, category,
                                                     products, excludeId)]]

\* The calls of validatePricingHierarchy of productService.js.
validatePricingHierarchyCall_api ==
  \E productData \in HierValidateInputs, category \in {"Dairy", "Groceries"},
     excludeId \in {0, 3} :
    call' = [op |-> "validatePricingHierarchy", arg |-> productData,
             category |-> category, excludeId |-> excludeId,
             ret |-> validatePricingHierarchy_api(productData, category,
                                                  products, excludeId)]

\* A call of validatePricingHierarchy between the other calls of a client.
DoValidatePricingHierarchy ==
  /\ svc = "part_003"
  /\ calls < MaxCalls
  /\ validatePricingHierarchyCall
  /\ calls' = calls + 1
  /\ UNCHANGED <<svc, products, hier, last, nextId, pend, everIds>>

DoValidatePricingHierarchy_api ==
  /\ svc = "api"
  /\ calls < MaxCalls
  /\ validatePricingHierarchyCall_api
  /\ calls' = calls + 1
  /\ UNCHANGED <<svc, products, hier, last, nextId, pend, everIds>>

Next ==
  \/ DoBulkUpdatePrices
  \/ DoBulkUpdatePrices_api
  \/ DoBulkUpdatePricingHierarchy
  \/ DoHierarchyResume
  \/ DoCreate
  \/ DoCreate_api
  \/ DoUpdate
  \/ DoUpdate_api
  \/ DoDelete
  \/ DoUpdateProductPrices
  \/ DoUpdateProductPrices_api
  \/ DoAddSeasonalDiscount
  \/ DoAddSeasonalDiscount_api
  \/ DoSeasonalResume
  \/ DoValidatePricingHierarchy
  \/ DoValidatePricingHierarchy_api
  \/ DoGetAll
  \/ DoGetAll_api
  \/ DoGetById
  \/ DoGetById_api

Spec == Init /\ [][Next]_vars

\* The service with its timers: the delay(200) a bulkUpdatePricingHierarchy
\* call awaits for an item is a setTimeout, and the event loop runs its
\* callback, so a suspended call is resumed.
SpecFair == Spec /\ WF_vars(DoHierarchyResume)

-----------------------------------------------------------------------------
(* The pure methods called on arguments drawn from small sets *)

\* Arguments of calculateHierarchyPrice; a date of 0 is one not configured.
HierarchyInputs ==
  {[basePrice |-> b, price |-> p, variationPrice |-> v, purchasePrice |-> c,
    seasonalDiscount |-> d, seasonalDiscountType |-> t,
    seasonalDiscountStartDate |-> r[1], seasonalDiscountEndDate |-> r[2]] :
     b \in {0, 10000}, p \in {10000, 5000}, v \in {0, 8000}, c \in {0, 4000},
     d \in {0, 1000, 9000, 15000}, t \in {"Percentage", "Fixed Amount"},
     r \in {<<0, 0>>, <<1, 5>>, <<5, 20>>}}

PriceUpdateInputs ==
  [price : {<<>>, <<0>>, <<0 - 100>>, <<9000>>, <<10200>>, <<10500>>, <<12000>>,
            NaN, NonNumeric},
   purchasePrice : {<<>>, <<0>>, <<0 - 1>>, <<10000>>, NaN, NonNumeric}]

DoCalculateHierarchyPrice ==
  /\ svc = "part_003"
  /\ \E productData \in HierarchyInputs :
       call' = [op |-> "calculateHierarchyPrice", arg |-> productData,
                ret |-> [kind |-> "number", value |-> calculateHierarchyPrice(productData)]]
  /\ UNCHANGED <<svc, products, hier, last, calls, nextId, pend, everIds>>

DoCalculateHierarchyPrice_api ==
  /\ svc = "api"
  /\ \E productData \in HierarchyInputs :
       call' = [op |-> "calculateHierarchyPrice", arg |-> productData,
                ret |-> [kind |-> "object", value |-> calculateHierarchyPrice_api(productData)]]
  /\ UNCHANGED <<svc, products, hier, last, calls, nextId, pend, everIds>>

DoValidatePriceUpdate ==
  /\ svc = "part_003"
  /\ \E priceData \in PriceUpdateInputs :
       call' = [op |-> "validatePriceUpdate", arg |-> priceData,
                ret |-> validatePriceUpdate(priceData)]
  /\ UNCHANGED <<svc, products, hier, last, calls, nextId, pend, everIds>>

DoValidatePriceUpdate_api ==
  /\ svc = "api"
  /\ \E priceData \in PriceUpdateInputs :
       call' = [op |-> "validatePriceUpdate", arg |-> priceData,
                ret |-> validatePriceUpdate_api(priceData)]
  /\ UNCHANGED <<svc, products, hier, last, calls, nextId, pend, everIds>>

\* updateProductPrices applied to the initial collection: what it leaves
\* of the collection and whether it returned.
DoUpdateProductPricesPure ==
  /\ svc = "part_003"
  /\ \E productId \in {1, 4}, priceData \in PriceUpdateInputs :
       LET r == updateProductPrices(products, nextId, productId,
                                    Payload(<<>>, priceData.price, priceData.purchasePrice, <<>>, ""))
       IN  call' = [op |-> "updateProductPrices", id |-> productId, arg |-> priceData,
                    ret |-> [ok |-> r.ok, error |-> r.error, products |-> r.products]]
  /\ UNCHANGED <<svc, products, hier, last, calls, nextId, pend, everIds>>

DoUpdateProductPricesPure_api ==
  /\ svc = "api"
  /\ \E productId \in {1, 4}, priceData \in PriceUpdateInputs :
       LET r == updateProductPrices_api(products, nextId, productId,
                                        Payload(<<>>, priceData.price, priceData.purchasePrice, <<>>, ""))
       IN  call' = [op |-> "updateProductPrices", id |-> productId, arg |-> priceData,
                    ret |-> [ok |-> r.ok, error |-> r.error, products |-> r.products]]
  /\ UNCHANGED <<svc, products, hier, last, calls, nextId, pend, everIds>>

\* Arguments of validateProfitRules.
ProfitRuleInputs ==
  [price : {10000}, purchasePrice : {0, 4000},
   discountValue : {0, 1000, 9000, 9500, 10000},
   discountType : {"", "Percentage", "Fixed Amount"}]

DoValidateProfitRules ==
  /\ svc = "part_003"
  /\ \E productData \in ProfitRuleInputs :
       call' = [op |-> "validateProfitRules", arg |-> productData,
                ret |-> validateProfitRules(productData)]
  /\ UNCHANGED <<svc, products, hier, last, calls, nextId, pend, everIds>>

DoValidateProfitRules_api ==
  /\ svc = "api"
  /\ \E productData \in ProfitRuleInputs :
       call' = [op |-> "validateProfitRules", arg |-> productData,
                ret |-> validateProfitRules_api(productData)]
  /\ UNCHANGED <<svc, products, hier, last, calls, nextId, pend, everIds>>

\* validatePricingHierarchy applied to the initial collection.
DoValidatePricingHierarchyPure ==
  /\ svc = "part_003"
  /\ validatePricingHierarchyCall
  /\ UNCHANGED <<svc, products, hier, last, calls, nextId, pend, everIds>>

DoValidatePricingHierarchyPure_api ==
  /\ svc = "api"
  /\ validatePricingHierarchyCall_api
  /\ UNCHANGED <<svc, products, hier, last, calls, nextId, pend, everIds>>

NextPure ==
  \/ DoCalculateHierarchyPrice
  \/ DoCalculateHierarchyPrice_api
  \/ DoValidatePriceUpdate
  \/ DoValidatePriceUpdate_api
  \/ DoValidateProfitRules
  \/ DoValidateProfitRules_api
  \/ DoValidatePricingHierarchyPure
  \/ DoValidatePricingHierarchyPure_api
  \/ DoUpdateProductPricesPure
  \/ DoUpdateProductPricesPure_api

SpecPure == Init /\ [][NextPure]_vars


-----------------------------------------------------------------------------
(* Properties *)

\* The call named op has just returned and no bulkUpdatePricingHierarchy
\* call is in flight: products is the collection as the call left it and
\* last.before the collection as the call found it.
JustReturned(op) == last.op = op /\ hier.pc = "idle"

\* The indexes of last.before that the last bulkUpdatePrices request selects.
Selected ==
  IF svc = "part_003" THEN filteredIdx(last.before, last.req)
  ELSE {i \in 1..Len(last.before) : shouldUpdateProduct_api(last.before[i], last.req)}

\* The candidate price of the last bulkUpdatePrices request for item i:
\* strategy, price guards, rounding.
Candidate(i) ==
  LET c == strategyPrice(last.before[i].price, last.req)
      g == IF last.req.priceGuards.enabled THEN guardClamp(c, last.req.priceGuards) ELSE c
  IN  IF svc = "part_003" THEN roundToDecimals(g.num, g.den)
      ELSE calculateNewPrice_api(last.before[i], last.req)

\* C1. No-cost-violation: after a bulkUpdatePrices call every product whose
\* selling price the call changed and whose purchasePrice is > 0 has a
\* stored price strictly above its purchasePrice.
C1_NoCostViolation ==
  (JustReturned("bulkUpdatePrices") /\ last.report.ok) =>
    \A i \in 1..Len(products) :
      (products[i].price # last.before[i].price /\ products[i].purchasePrice > 0)
        => products[i].price > products[i].purchasePrice

\* C2. A selected item whose candidate selling price fails validation (it
\* is not above a cost > 0) is recorded in the report's conflicts and its
\* stored record is what it was before the call.
C2_FailedCandidateIsConflict ==
  (JustReturned("bulkUpdatePrices") /\ last.report.ok /\ last.req.applyTo # "cost_price") =>
    \A i \in Selected :
      (last.before[i].purchasePrice > 0 /\ Candidate(i) <= last.before[i].purchasePrice
       /\ Candidate(i) # last.before[i].price)
        => /\ \E k \in 1..Len(last.report.conflicts) :
                last.report.conflicts[k].productId = last.before[i].id
           /\ products[i] = last.before[i]

\* The field a bulkUpdatePrices request changes.
Target(product, updateData) ==
  IF updateData.applyTo = "cost_price" THEN product.purchasePrice ELSE product.price

\* C3. updatedCount of a bulkUpdatePrices report is the number of products
\* whose stored price (the field being changed) differs from its value
\* before the call.
C3_UpdatedCountIsChanged ==
  (JustReturned("bulkUpdatePrices") /\ last.report.ok) =>
    last.report.updatedCount =
      Cardinality({i \in 1..Len(products) :
                     Target(products[i], last.req) # Target(last.before[i], last.req)})

\* The ids a sequence of report entries names.
Ids(entries) == {entries[k].productId : k \in 1..Len(entries)}

\* The stored products have pairwise different ids.
UniqueIds(ps) == Cardinality(StoredIds(ps)) = Len(ps)

\* C4. In every bulk update report updatedCount + conflicts.length is at
\* most totalFiltered; and, the report naming products by their ids, when
\* the ids of the collection the call found identify its products, no
\* product is both updated and a conflict and no product is entered twice
\* in either list.
C4_TallyWithinFiltered ==
  (last.op \in {"bulkUpdatePrices", "bulkUpdatePricingHierarchy"}
   /\ last.report.ok /\ last.report.totalFiltered # <<>>) =>
    /\ last.report.updatedCount + Len(last.report.conflicts) <= last.report.totalFiltered[1]
    /\ UniqueIds(last.before) =>
         /\ Ids(last.report.updateResults) \cap Ids(last.report.conflicts) = {}
         /\ Cardinality(Ids(last.report.updateResults)) = Len(last.report.updateResults)
         /\ Cardinality(Ids(last.report.conflicts)) = Len(last.report.conflicts)

\* A bulkUpdatePrices report with updated products, a conflict, and a
\* selected product that is neither.
C4_Witness ==
  /\ last.op = "bulkUpdatePrices"
  /\ last.report.ok
  /\ last.report.totalFiltered # <<>>
  /\ last.report.updatedCount >= 1
  /\ Len(last.report.conflicts) >= 1
  /\ last.report.updatedCount + Len(last.report.conflicts) < last.report.totalFiltered[1]

\* A request missing its strategy, its value (percentage, fixed) or a
\* range bound (range).
Malformed(updateData) ==
  \/ updateData.strategy = ""
  \/ updateData.strategy \in {"percentage", "fixed"} /\ updateData.value = 0
  \/ updateData.strategy = "range" /\ (updateData.minPrice = 0 \/ updateData.maxPrice = 0)

\* C5. A malformed bulkUpdatePrices request fails the call up front: the
\* call returns an error and no product has been modified.
C5_MalformedFailsUpFront ==
  (JustReturned("bulkUpdatePrices") /\ Malformed(last.req)) =>
    ~last.report.ok /\ products = last.before

\* C6. A bulkUpdatePricingHierarchy pass never overwrites, from its
\* snapshot, a product another call has written since the snapshot was
\* taken: when the pass writes a product, the stored record is still the
\* one of its snapshot.
C6_NoLostUpdate ==
  [][(hier.pc = "await" /\ hier' # hier /\ products' # products) =>
       products[findIndex(products, hier.updates.id)] = hier.filtered[hier.i]]_vars

\* The running price of the hierarchy: variationPrice when > 0, else
\* basePrice (price when no basePrice is set).
RunningPrice(productData) ==
  IF productData.variationPrice > 0 THEN productData.variationPrice
  ELSE IF productData.basePrice # 0 THEN productData.basePrice ELSE productData.price

\* The seasonal discount applied to the running price and rounded.
Discounted(productData) ==
  IF productData.seasonalDiscount <= 0 THEN RunningPrice(productData)
  ELSE IF productData.seasonalDiscountType = "Percentage"
  THEN roundToDecimals(RunningPrice(productData) * (10000 - productData.seasonalDiscount), 10000)
  ELSE Max(0, RunningPrice(productData) - productData.seasonalDiscount)

\* C7. calculateHierarchyPrice resolves base -> variation override ->
\* seasonal discount, rounded to 2 decimals (100 / 80 / 10 % gives 72.00).
C7_HierarchyPrecedence ==
  call.op = "calculateHierarchyPrice" =>
    call.ret.kind = "number" /\ call.ret.value = Discounted(call.arg)

\* C8. The price calculateHierarchyPrice returns is never negative.
C8_NeverNegative ==
  (call.op = "calculateHierarchyPrice" /\ call.ret.kind = "number") => call.ret.value >= 0

\* C9. For a product whose configured seasonal date range does not contain
\* today, calculateHierarchyPrice returns the undiscounted running price.
C9_DiscountOnlyInDateRange ==
  (/\ call.op = "calculateHierarchyPrice" /\ call.ret.kind = "number"
   /\ call.arg.seasonalDiscountStartDate # 0 /\ call.arg.seasonalDiscountEndDate # 0
   /\ ~(call.arg.seasonalDiscountStartDate <= Today /\ Today <= call.arg.seasonalDiscountEndDate))
    => call.ret.value = RunningPrice(call.arg)

\* C10. Margin floor: validatePriceUpdate rejects every price s and cost
\* c > 0 with ((s - c) / c) * 100 < 5.
C10_MarginFloor ==
  (/\ call.op = "validatePriceUpdate"
   /\ IsNumber(call.arg.price) /\ IsNumber(call.arg.purchasePrice)
   /\ call.arg.purchasePrice[1] > 0
   /\ (call.arg.price[1] - call.arg.purchasePrice[1]) * 100 < 5 * call.arg.purchasePrice[1])
    => ~call.ret.isValid

\* clamp(x, lo, hi).
Clamp(x, lo, hi) == IF x < lo THEN lo ELSE IF x > hi THEN hi ELSE x

\* The last call was a bulkUpdatePrices with a well-formed range request
\* on selling prices, no price guards, on a collection whose ids identify
\* its products.
RangeCall ==
  /\ JustReturned("bulkUpdatePrices") /\ last.report.ok
  /\ last.req.strategy = "range"
  /\ last.req.minPrice # 0 /\ last.req.maxPrice # 0
  /\ last.req.minPrice < last.req.maxPrice
  /\ ~last.req.priceGuards.enabled
  /\ last.req.applyTo # "cost_price"
  /\ UniqueIds(last.before)

InTarget(product, updateData) ==
  /\ updateData.category # "all" => product.category = updateData.category
  /\ updateData.applyToLowStock => product.stock <= updateData.stockThreshold
  /\ updateData.applyTo = "selected_rows" => product.id \in updateData.selectedRows

\* C12. The products a bulkUpdatePrices call works on are exactly those
\* that pass every filter of the request (category, low stock, selected
\* ids), and a product that fails one of them is left as it was.
C12_FiltersComposeWithAnd ==
  (JustReturned("bulkUpdatePrices") /\ last.report.ok /\ UniqueIds(last.before)) =>
    /\ Selected = {i \in 1..Len(last.before) : InTarget(last.before[i], last.req)}
    /\ \A i \in 1..Len(last.before) :
         ~InTarget(last.before[i], last.req) => products[i] = last.before[i]

\* A bulkUpdatePricingHierarchy call for a seasonal discount with the
\* conflict resolution r has returned, and no other call ran since it
\* started: last.before is the collection it found, products the one it
\* left.
SeasonalCall(r) ==
  /\ JustReturned("bulkUpdatePricingHierarchy") /\ last.report.ok
  /\ calls = 1
  /\ last.req.updateType = "seasonal_discount"
  /\ last.req.conflictResolution = r

\* The filtered products of the last hierarchy call that had a seasonal
\* discount when it started.
Discounted0 ==
  {i \in hierFilteredIdx(last.before, last.req) : last.before[i].seasonalDiscount > 0}

\* C13. Merge: for a filtered product that already has a seasonal
\* discount, a larger new discount that passes validation becomes the
\* product's discount; when the existing one is larger or equal the
\* product is left unchanged and is among the reported conflicts.
C13_MergeKeepsLarger ==
  SeasonalCall("merge") =>
    \A i \in Discounted0 :
      IF last.req.seasonalDiscount > last.before[i].seasonalDiscount
      THEN last.before[i].id \notin Ids(last.report.conflicts)
             => products[i].seasonalDiscount = last.req.seasonalDiscount
      ELSE /\ products[i] = last.before[i]
           /\ last.before[i].id \in Ids(last.report.conflicts)

\* C14. Skip: every filtered product that already has a seasonal discount
\* is left unchanged in the store, is among the reported conflicts and in
\* conflictCount, and is not among the updated.
C14_SkipLeavesAndReports ==
  SeasonalCall("skip") =>
    /\ \A i \in Discounted0 :
         /\ products[i] = last.before[i]
         /\ last.before[i].id \in Ids(last.report.conflicts)
         /\ last.before[i].id \notin Ids(last.report.updateResults)
    /\ last.report.conflictCount >= Cardinality(Discounted0)
    /\ last.report.updatedCount + Cardinality(Discounted0) <= last.report.totalFiltered[1]

\* A skip call that met a discounted product and updated another.
C14_Witness ==
  /\ SeasonalCall("skip")
  /\ Discounted0 # {}
  /\ last.report.updatedCount >= 1

C16_IdsNeverReused ==
  [][(/\ calls' = calls + 1
      /\ last'.op = "create" /\ last'.report.ok
      /\ last'.req.id = <<>>)
       => products'[Len(products')].id \notin everIds]_vars

\* C17. No two stored products share an id, and no step changes the id of
\* a stored product.
C17_IdsUniqueAndImmutable ==
  [][/\ UniqueIds(products')
     /\ Len(products') = Len(products) =>
          \A i \in 1..Len(products) : products'[i].id = products[i].id]_vars

\* C18. Every stored product has a price > 0.
C18_BasePricePositive ==
  \A i \in 1..Len(products) : products[i].price > 0

\* The cost a price must reach under the guards' margin:
\* candidate < cost * (1 + minMargin / 100), in hundredths.
BelowGuardMargin(candidate, product, g) ==
  /\ product.purchasePrice > 0
  /\ candidate * 10000 < product.purchasePrice * (10000 + g.minMargin)

\* C19. With priceGuards.enabled every price a bulkUpdatePrices call
\* commits lies within [minPrice, maxPrice]; with enforceMargin a selected
\* product whose candidate selling price is below cost * (1 + minMargin /
\* 100) is recorded as a conflict and left unchanged, whatever applyTo is.
C19_PriceGuards ==
  (/\ JustReturned("bulkUpdatePrices") /\ last.report.ok
   /\ last.req.priceGuards.enabled /\ UniqueIds(last.before)) =>
    /\ \A i \in 1..Len(products) :
         Target(products[i], last.req) # Target(last.before[i], last.req)
           => /\ last.req.priceGuards.minPrice <= Target(products[i], last.req)
              /\ Target(products[i], last.req) <= last.req.priceGuards.maxPrice
    /\ (last.req.priceGuards.enforceMargin /\ last.req.applyTo # "cost_price") =>
         \A i \in Selected :
           BelowGuardMargin(Candidate(i), last.before[i], last.req.priceGuards)
             => /\ last.before[i].id \in Ids(last.report.conflicts)
                /\ products[i] = last.before[i]

\* The derived fields of a product as the class computes them:
\* calculateProfitMetrics, and in part_003 the hierarchy price.
Derived(product) ==
  IF svc = "part_003"
  THEN [profitMargin |-> calculateProfitMetrics(product).profitMargin,
        minSellingPrice |-> calculateProfitMetrics(product).minSellingPrice,
        effectivePrice |-> calculateHierarchyPrice(product)]
  ELSE [profitMargin |-> calculateProfitMetrics_api(product).profitMargin,
        minSellingPrice |-> calculateProfitMetrics_api(product).minSellingPrice,
        effectivePrice |-> product.effectivePrice]

\* C20. Each stored product's profitMargin, minSellingPrice and
\* effectivePrice are the values computed from its current pricing inputs.
C20_DerivedFieldsAreFresh ==
  \A i \in 1..Len(products) :
    /\ products[i].profitMargin = Derived(products[i]).profitMargin
    /\ products[i].minSellingPrice = Derived(products[i]).minSellingPrice
    /\ products[i].effectivePrice = Derived(products[i]).effectivePrice

\* A payload that breaks a rule of the price validator: a price <= 0, a
\* negative cost, or a price not above the cost it comes with.
BreaksPriceRule(productData) ==
  \/ productData.price # <<>> /\ productData.price[1] <= 0
  \/ productData.purchasePrice # <<>> /\ productData.purchasePrice[1] < 0
  \/ /\ productData.price # <<>> /\ productData.purchasePrice # <<>>
     /\ productData.price[1] <= productData.purchasePrice[1]

\* C21. A create, update or updateProductPrices call whose payload breaks
\* a validator rule, and an update or updateProductPrices call on an id no
\* stored product has, returns an error and leaves the collection as it
\* was.
C21_FailedCallChangesNothing ==
  (/\ hier.pc = "idle"
   /\ last.op \in {"create", "update", "updateProductPrices"}
   /\ \/ BreaksPriceRule(last.req)
      \/ last.op # "create" /\ findIndex(last.before, last.id) = 0)
    => ~last.report.ok /\ products = last.before

\* The discount d of type t is over the ceiling for the base price b: a
\* Percentage discount above 90, a fixed amount at or above the base price.
OverCeiling(d, t, b) ==
  d > 0 /\ IF t = "Percentage" THEN d > 9000 ELSE d >= b

\* C22. Discount ceiling.  validateProfitRules and validatePricingHierarchy
\* reject a discount over the ceiling, and do not give the ceiling as the
\* reason to reject a Percentage discount <= 90 or a fixed amount below the
\* base price.
C22_DiscountCeiling ==
  /\ call.op = "validateProfitRules" =>
       IF OverCeiling(call.arg.discountValue, call.arg.discountType, call.arg.price)
       THEN ~call.ret.isValid
       ELSE call.ret.error \notin
              {"Percentage discount cannot exceed 90%",
               "Fixed discount cannot be equal to or greater than the product price"}
  /\ (call.op = "validatePricingHierarchy" /\ svc = "part_003") =>
       IF OverCeiling(call.arg.seasonalDiscount, call.arg.seasonalDiscountType,
                      call.arg.price)
       THEN ~call.ret.isValid
       ELSE call.ret.conflicts \cap
              {"excessive_seasonal_discount", "invalid_seasonal_discount"} = {}

\* The last call, a bulkUpdatePricingHierarchy, has returned its report and
\* no call that writes ran since it started.
HierarchyRanAlone ==
  /\ JustReturned("bulkUpdatePricingHierarchy") /\ last.report.ok
  /\ calls = 1 \/ (calls = 2 /\ call.op = "validatePricingHierarchy")

\* The filtered items of the last hierarchy call that went to validation
\* and came back with the conflicts cs.
Validated(i) ==
  hierItem(last.before[i], last.req).shouldUpdate

C24_BarcodesUnique ==
  \A i, j \in 1..Len(products) :
    /\ products[i].barcode # 0
    /\ i # j => products[i].barcode # products[j].barcode

\* The rounded candidate of the last bulkUpdatePrices request for item i,
\* for the field the request changes.
Rounded(i) ==
  IF svc = "part_003"
  THEN roundToDecimals(guardedPrice(last.before[i], last.req).num,
                       guardedPrice(last.before[i], last.req).den)
  ELSE calculateNewPrice_api(last.before[i], last.req)

\* The selected items of the last bulkUpdatePrices call whose rounded
\* candidate is the original value: |newPrice - originalPrice| < 0.01.
Unchanging == {i \in Selected : Rounded(i) = Target(last.before[i], last.req)}

\* C25. No-op threshold.  In bulkUpdatePrices a selected item is skipped
\* (left as it was, not counted as updated, not recorded as a conflict)
\* exactly when its rounded candidate differs from the original by less
\* than 0.01; an item whose candidate differs by a cent or more is
\* committed or recorded as a conflict.
C25_NoOpThreshold ==
  (JustReturned("bulkUpdatePrices") /\ last.report.ok /\ UniqueIds(last.before)) =>
    /\ \A i \in Unchanging :
         /\ products[i] = last.before[i]
         /\ last.before[i].id \notin Ids(last.report.conflicts)
         /\ last.before[i].id \notin Ids(last.report.updateResults)
    /\ last.report.updatedCount <= Cardinality(Selected \ Unchanging)
    /\ \A i \in Selected \ Unchanging :
         \/ Target(products[i], last.req) = Rounded(i)
         \/ last.before[i].id \in Ids(last.report.conflicts)

\* The entries of a report name products of the collection ps in the
\* order of the collection, each at most once.
InCollectionOrder(entries, ps) ==
  \A a, b \in 1..Len(entries) :
    a < b => findIndex(ps, entries[a].productId) < findIndex(ps, entries[b].productId)

\* A productService.js bulkUpdatePrices call on a well-formed request has
\* returned: every selected product is committed with its new price and
\* counted, every other product is as it was.
ApiBulkCompleted ==
  (JustReturned("bulkUpdatePrices") /\ svc = "api" /\ ~Malformed(last.req)
   /\ UniqueIds(last.before)) =>
    /\ last.report.ok
    /\ last.report.updatedCount = Cardinality(Selected)
    /\ \A i \in 1..Len(last.before) :
         IF i \in Selected
         THEN products[i].price = calculateNewPrice_api(last.before[i], last.req)
         ELSE products[i] = last.before[i]

\* A bulkUpdatePricingHierarchy call on a well-formed request has
\* returned: it returned a report, whose updated and conflicting entries
\* name filtered products in collection order, no product in both, and
\* whose counts are those of the entries.
HierarchyCompleted ==
  (JustReturned("bulkUpdatePricingHierarchy")
   /\ validateBulkPriceUpdate(last.req).isValid /\ UniqueIds(last.before)) =>
    /\ last.report.ok
    /\ InCollectionOrder(last.report.updateResults, last.before)
    /\ InCollectionOrder(last.report.conflicts, last.before)
    /\ Ids(last.report.updateResults) \cap Ids(last.report.conflicts) = {}
    /\ Ids(last.report.updateResults) \cup Ids(last.report.conflicts)
         \subseteq {last.before[i].id : i \in hierFilteredIdx(last.before, last.req)}
    /\ last.report.updatedCount = Len(last.report.updateResults)
    /\ last.report.conflictCount = Len(last.report.conflicts)
    /\ last.report.updatedCount + last.report.conflictCount <= last.report.totalFiltered[1]

\* A suspended bulkUpdatePricingHierarchy call that goes on to another
\* item goes on to a later item of its snapshot.
NoItemRevisited ==
  (hier.pc = "await" /\ hier'.pc = "await" /\ hier' # hier) => hier'.i > hier.i

\* C26. Per-item state machine and completion.  A bulk update on a
\* well-formed request handles every filtered product once, in collection
\* order, and leaves it skipped, rejected (a conflict entry) or committed
\* (an update entry), never two of these and never going back to an
\* item; it does not fail as a whole, and a call that has started returns
\* a report with the tally.
C26_PerItemCompletion ==
  /\ [](ApiBulkCompleted /\ HierarchyCompleted)
  /\ [][NoItemRevisited]_vars
  /\ (hier.pc = "await") ~>
       (JustReturned("bulkUpdatePricingHierarchy") /\ last.report.ok)

\* A hierarchy call that has returned a report with an item committed and
\* an item rejected.
C26_Witness ==
  /\ JustReturned("bulkUpdatePricingHierarchy") /\ last.report.ok
  /\ UniqueIds(last.before)
  /\ last.report.updatedCount >= 1 /\ last.report.conflictCount >= 1
  /\ last.report.updatedCount + last.report.conflictCount = last.report.totalFiltered[1]

\* The price or the cost given is NaN or letters.
GivenNotANumber(priceData) ==
  priceData.price \in {NaN, NonNumeric} \/ priceData.purchasePrice \in {NaN, NonNumeric}

\* C27. Malformed numeric input.  validatePriceUpdate given NaN or a
\* non-numeric string as price or purchasePrice returns isValid = FALSE
\* with a message; updateProductPrices given such input fails and leaves
\* the collection as it was.
C27_NotANumberIsRejected ==
  /\ (call.op = "validatePriceUpdate" /\ GivenNotANumber(call.arg)) =>
       ~call.ret.isValid /\ call.ret.error # ""
  /\ (call.op = "updateProductPrices" /\ GivenNotANumber(call.arg)) =>
       ~call.ret.ok /\ call.ret.products = products

\* The fields no bulk update writes.
Identity(product) ==
  <<product.id, product.barcode, product.category, product.stock>>

\* The pricing inputs a bulkUpdatePrices call does not target: the
\* hierarchy fields and the discount.
Untargeted(product) ==
  <<product.basePrice, product.variationPrice, product.discountValue, product.discountType,
    product.seasonalDiscount, product.seasonalDiscountType, product.seasonalDiscountActive,
    product.seasonalDiscountStartDate, product.seasonalDiscountEndDate>>

\* C28. Frame of a bulk update.  After bulkUpdatePrices (and after a
\* bulkUpdatePricingHierarchy that ran with no writing call in between) no
\* product has been added or removed, every product outside the filtered
\* set is as it was, and every product keeps its id, barcode, category and
\* stock; a product bulkUpdatePrices wrote differs from what it was in one
\* price field (price or purchasePrice) and in the derived fields only.
C28_Frame ==
  /\ (JustReturned("bulkUpdatePrices") /\ last.report.ok /\ UniqueIds(last.before)) =>
       /\ Len(products) = Len(last.before)
       /\ \A i \in 1..Len(last.before) :
            /\ i \notin Selected => products[i] = last.before[i]
            /\ Identity(products[i]) = Identity(last.before[i])
            /\ Untargeted(products[i]) = Untargeted(last.before[i])
            /\ \/ products[i].price = last.before[i].price
               \/ products[i].purchasePrice = last.before[i].purchasePrice
  /\ (HierarchyRanAlone /\ UniqueIds(last.before)) =>
       /\ Len(products) = Len(last.before)
       /\ \A i \in 1..Len(last.before) :
            /\ i \notin hierFilteredIdx(last.before, last.req) => products[i] = last.before[i]
            /\ Identity(products[i]) = Identity(last.before[i])
            /\ products[i].purchasePrice = last.before[i].purchasePrice

\* A bulkUpdatePrices call that wrote the price of a product and had a
\* product outside its filtered set.
C28_Witness ==
  /\ JustReturned("bulkUpdatePrices") /\ last.report.ok /\ UniqueIds(last.before)
  /\ \E i \in Selected : products[i].price # last.before[i].price
  /\ \E i \in 1..Len(last.before) : i \notin Selected

\* The last bulkUpdatePrices request run once more on the collection as it
\* is now.
Again ==
  IF svc = "part_003" THEN bulkUpdatePrices(products, last.req)
  ELSE bulkUpdatePrices_api(products, last.req)

\* C29. Range idempotence.  After a bulkUpdatePrices call with a
\* well-formed range request and no price guards, the same request run a
\* second time changes no stored product and reports updatedCount = 0.
C29_RangeIdempotent ==
  RangeCall => /\ Again.products = products
               /\ Again.report.updatedCount = 0

\* The collection ps with the financial fields of every product blanked.
Blanked(ps) ==
  [i \in 1..Len(ps) |->
     [ps[i] EXCEPT !.purchasePrice = 0, !.minSellingPrice = 0, !.profitMargin = 0]]

\* The read of call, made on the collection ps.
Read(ps) ==
  IF call.op = "getAll"
  THEN [ok |-> TRUE, error |-> "",
        product |-> IF svc = "part_003" THEN getAll(ps, call.userRole)
                    ELSE getAll_api(ps, call.userRole)]
  ELSE IF svc = "part_003" THEN getById(ps, call.id, call.userRole)
       ELSE getById_api(ps, call.id, call.userRole)

\* C30. Financial-data confidentiality.  What getAll and getById return
\* to a reader who is not an admin has no purchasePrice, minSellingPrice
\* or profitMargin, and is what they return on the collection with these
\* fields blanked: two collections that differ in these fields alone give
\* the same result.
C30_NonAdminSeesNoFinancials ==
  (call.op \in {"getAll", "getById"} /\ call.userRole # "admin") =>
    /\ \A k \in 1..Len(call.ret.product) : DOMAIN call.ret.product[k] \cap Financial = {}
    /\ call.ret = Read(Blanked(call.before))

=============================================================================
